---- MODULE Spec2Model ----
(***************************************************************************)
(* Models of the three simulators of the repository:                       *)
(*   selfish_mining.py  the two-party selfish-mining disclosure machine    *)
(*   fork_attack.py     the multi-node fork race                           *)
(*   pow.py             the honest growth model (same select_chain)        *)
(* Python lists are mutable objects, so chains live in a heap of list      *)
(* objects and the attributes of the nodes hold references into it: an     *)
(* assignment without copy aliases two attributes to one list.             *)
(***************************************************************************)
EXTENDS Integers, Sequences, FiniteSets, TLC

\* ------------------------------------------------------------------ bounds
\* rounds argument of BlockchainSimulation (number of rounds of one run)
MaxRounds == 8
\* random.random() is drawn from {0/Scale, 1/Scale, ..., (Scale-1)/Scale}
Scale == 2
\* largest node_count of the fork race
MaxNodes == 2
\* largest node_count of the growth model
MaxGrowthNodes == 3
\* rounds argument of simulate_blockchain of pow.py
MaxGrowthRounds == 3
\* rounds argument of simulate_blockchain (number of trials of one run)
MaxTrials == 2

VARIABLES
    heap,                  \* list objects: reference -> sequence of blocks
    honest_blockchain,     \* honest_nodes.blockchain (a reference)
    selfish_blockchain,    \* selfish_node.blockchain, the private chain (a reference)
    public_chain,          \* selfish_node.public_chain (a reference)
    private_chain_length,  \* selfish_node.private_chain_length
    malicious_rate,        \* self.malicious_rate, in units of 1/Scale
    round,                 \* iterations of the for loop of simulate started
    pc,                    \* position in the loop body of simulate
    miner,                 \* which branch of line 60 the current round took
    delta,                 \* the local delta of the miner that ran in this round
    coin,                  \* outcome of the draw of line 110, when it was drawn
    start,                 \* the chains and the counter when the round started
    last_round,            \* miner and start of the round before the current one
    lists,                 \* fork race: list objects, reference -> sequence of blocks
    chain,                 \* fork race: node -> reference of node.chain
    node_count,            \* fork race: node_count
    fork_malicious_rate,   \* fork race: malicious_rate, in units of 1/Scale
    success_rate,          \* fork race: success_rate, in units of 1/Scale
    trial,                 \* fork race: iterations of the for loop of line 93 started
    malicious_win_count,   \* fork race: malicious_win_count
    fpc,                   \* fork race: position in simulate_blockchain
    cursor,                \* fork race: index of the node whose turn it is to mine
    chain_honest,          \* fork race: node whose list select_chain(honest_nodes) returned
    chain_malicious,       \* fork race: node whose list select_chain(malicious_nodes) returned
    called,                \* fork race: argument, chains before and choice of the last select_chain call
    verdict,               \* fork race: lengths, coin and outcome of the round that ended the trial
    growth_round,          \* growth model: r of the for loop of line 69
    current_length         \* growth model: current_length

\* the state of selfish_mining.py
svars == <<heap, honest_blockchain, selfish_blockchain, public_chain,
           private_chain_length, malicious_rate, round, pc, miner, delta, coin, start,
           last_round>>

\* the state of fork_attack.py
fvars == <<lists, chain, node_count, fork_malicious_rate, success_rate, trial,
           malicious_win_count, fpc, cursor, chain_honest, chain_malicious, called,
           verdict>>

\* the state of pow.py that fork_attack.py does not have as well
gvars == <<growth_round, current_length>>

vars == <<svars, fvars, gvars>>

\* ------------------------------------------------------------ selfish model
\* the three chain attributes of the selfish-mining model
ChainFields == {"honest_blockchain", "blockchain", "public_chain"}

\* references of list objects; one more than the attributes, so that a copy
\* can be allocated while the three attributes are still bound
Ref == 1..(Cardinality(ChainFields) + 1)

\* Block(node_id, data): timestamp stands for time.time(), counted in rounds
\* (mined blocks) and in creation order (Genesis blocks), and through
\* calculate_hash for the hash that identifies the block
Block(node_id, data, timestamp) ==
    [node_id |-> node_id, data |-> data, timestamp |-> timestamp]

\* uniform draws in [0,1), as multiples of 1/Scale
Draws == 0..(Scale - 1)

\* the object store of one BlockchainSimulation as a record
Store ==
    [heap |-> heap, honest_blockchain |-> honest_blockchain,
     blockchain |-> selfish_blockchain, public_chain |-> public_chain,
     private_chain_length |-> private_chain_length]

\* the list an attribute refers to
ChainOf(s, field) == s.heap[s[field]]

\* list.append(block) on the object r: every attribute bound to r sees it
ListAppend(s, r, block) == [s EXCEPT !.heap[r] = Append(@, block)]

\* a reference no attribute is bound to
FreshRef(s) ==
    CHOOSE r \in Ref :
        /\ r \notin {s[f] : f \in ChainFields}
        /\ \A q \in Ref : q \notin {s[f] : f \in ChainFields} => r <= q

\* field = copy.deepcopy(blocks): a new list object holding equal blocks
DeepCopyTo(s, field, blocks) ==
    LET r == FreshRef(s)
    IN  [s EXCEPT !.heap[r] = blocks, ![field] = r]

\* field = other (no copy): both attributes are bound to one list object
BindTo(s, field, r) == [s EXCEPT ![field] = r]

\* list objects no attribute refers to are garbage
Collect(s) ==
    [s EXCEPT !.heap = [r \in Ref |->
        IF r \in {s[f] : f \in ChainFields} THEN s.heap[r] ELSE << >>]]

\* delta = len(self.selfish_node.blockchain) - len(self.selfish_node.public_chain)
Delta(s) == Len(ChainOf(s, "blockchain")) - Len(ChainOf(s, "public_chain"))

\* select_chain with the tie branch left out: on equal lengths nothing is copied
select_chain_no_tie(s) ==
    IF Len(ChainOf(s, "public_chain")) > Len(ChainOf(s, "honest_blockchain"))
    THEN DeepCopyTo(s, "honest_blockchain", ChainOf(s, "public_chain"))
    ELSE IF Len(ChainOf(s, "public_chain")) < Len(ChainOf(s, "honest_blockchain"))
    THEN DeepCopyTo(s, "public_chain", ChainOf(s, "honest_blockchain"))
    ELSE s

\* BlockchainSimulation.select_chain
select_chain(s) ==
    IF Len(ChainOf(s, "public_chain")) > Len(ChainOf(s, "honest_blockchain"))
    THEN DeepCopyTo(s, "honest_blockchain", ChainOf(s, "public_chain"))
    ELSE IF Len(ChainOf(s, "public_chain")) < Len(ChainOf(s, "honest_blockchain"))
    THEN DeepCopyTo(s, "public_chain", ChainOf(s, "honest_blockchain"))
    ELSE DeepCopyTo(s, "honest_blockchain", ChainOf(s, "public_chain"))

\* BlockchainSimulation.selfish_miner
selfish_miner(s, block) ==
    LET s1 == ListAppend(s, s.blockchain, block)
        s2 == [s1 EXCEPT !.private_chain_length = @ + 1]
    IN  IF Delta(s2) = 0 /\ s2.private_chain_length = 2
        THEN DeepCopyTo([s2 EXCEPT !.private_chain_length = 0],
                        "public_chain", ChainOf(s2, "blockchain"))
        ELSE s2

\* the delta == 0 branch without the reset of the private chain
honest_delta0_keep_private(s) == [s EXCEPT !.private_chain_length = 0]

\* honest_miner, branch delta == 0
honest_delta0(s) ==
    [DeepCopyTo(s, "blockchain", ChainOf(s, "honest_blockchain"))
        EXCEPT !.private_chain_length = 0]

\* the delta == 1 branch without the reset of the counter
honest_delta1_keep_counter(s, heads) ==
    LET s1 == DeepCopyTo(s, "public_chain", ChainOf(s, "blockchain"))
    IN  IF heads
        THEN BindTo(BindTo(s1, "public_chain", s1.honest_blockchain),
                    "blockchain", s1.honest_blockchain)
        ELSE BindTo(s1, "honest_blockchain", s1.public_chain)

\* honest_miner, branch delta == 1; heads is random.random() < 0.5
honest_delta1(s, heads) ==
    LET s1 == [DeepCopyTo(s, "public_chain", ChainOf(s, "blockchain"))
                  EXCEPT !.private_chain_length = 0]
    IN  IF heads
        THEN BindTo(BindTo(s1, "public_chain", s1.honest_blockchain),
                    "blockchain", s1.honest_blockchain)
        ELSE BindTo(s1, "honest_blockchain", s1.public_chain)

\* the delta == 2 branch publishing one block instead of the whole private chain
honest_delta2_one_block(s) ==
    [DeepCopyTo(s, "public_chain",
                SubSeq(ChainOf(s, "blockchain"), 1, Len(ChainOf(s, "public_chain")) + 1))
        EXCEPT !.private_chain_length = 0]

\* honest_miner, branch delta == 2
honest_delta2(s) ==
    [DeepCopyTo(s, "public_chain", ChainOf(s, "blockchain"))
        EXCEPT !.private_chain_length = 0]

\* the last branch with the counter decreased by the one block it releases
honest_delta_more_by_one(s) ==
    [DeepCopyTo(s, "public_chain",
                SubSeq(ChainOf(s, "blockchain"), 1, Len(ChainOf(s, "public_chain")) + 1))
        EXCEPT !.private_chain_length = @ - 1]

\* honest_miner, last branch
honest_delta_more(s) ==
    [DeepCopyTo(s, "public_chain",
                SubSeq(ChainOf(s, "blockchain"), 1, Len(ChainOf(s, "public_chain")) + 1))
        EXCEPT !.private_chain_length = @ - 2]

\* BlockchainSimulation.honest_miner
honest_miner(s, block, heads) ==
    LET s1 == ListAppend(s, s.honest_blockchain, block)
    IN  IF Delta(s1) = 0 THEN honest_delta0(s1)
        ELSE IF Delta(s1) = 1 THEN honest_delta1(s1, heads)
        ELSE IF Delta(s1) = 2 THEN honest_delta2(s1)
        ELSE honest_delta_more(s1)

\* BlockchainSimulation.block_count, on the blocks of the honest chain
block_count(blocks, id) == Cardinality({i \in 1..Len(blocks) : blocks[i].node_id = id})

\* the values a round starts from
Snapshot(s) ==
    [honest |-> ChainOf(s, "honest_blockchain"),
     private |-> ChainOf(s, "blockchain"),
     public |-> ChainOf(s, "public_chain"),
     private_chain_length |-> s.private_chain_length]

\* references of the list objects of the fork race and of the growth model:
\* one per node and one for the copy being made
FRef == 1..(MaxNodes + MaxGrowthNodes + 1)

\* simulate_blockchain of fork_attack.py has not been called
ForkIdle ==
    /\ lists = [r \in FRef |-> << >>]
    /\ chain = << >>
    /\ node_count = 0
    /\ fork_malicious_rate = 0
    /\ success_rate = 0
    /\ trial = 0
    /\ malicious_win_count = 0
    /\ fpc = "off"
    /\ cursor = 0
    /\ chain_honest = 0
    /\ chain_malicious = 0
    /\ called = [nodes |-> << >>, before |-> << >>, chosen |-> 0]
    /\ verdict = [ended |-> FALSE]

\* simulate_blockchain of pow.py has not been called
GrowthIdle ==
    /\ growth_round = 0
    /\ current_length = 0

\* HonestNode(1), SelfishNode(-1): three lists, each with its own Genesis block.
\* The Genesis blocks are created in the order honest, private, public; the
\* clock may or may not have advanced between the last two, so the public
\* Genesis block carries the timestamp public_genesis_time
SelfishInit(public_genesis_time) ==
    /\ heap = [r \in Ref |->
                 IF r = 1 THEN <<Block(1, "Genesis", -2)>>
                 ELSE IF r = 2 THEN <<Block(-1, "Genesis", -1)>>
                 ELSE IF r = 3 THEN <<Block(-1, "Genesis", public_genesis_time)>>
                 ELSE << >>]
    /\ honest_blockchain = 1
    /\ selfish_blockchain = 2
    /\ public_chain = 3
    /\ private_chain_length = 0
    /\ round = 0
    /\ miner = "none"
    /\ delta = 0
    /\ coin = "none"
    /\ start = Snapshot(Store)
    /\ last_round = [miner |-> "none", start |-> Snapshot(Store)]

\* BlockchainSimulation(malicious_rate, rounds, seed), before simulate()
Init ==
    /\ \E public_genesis_time \in {-1, 0} : SelfishInit(public_genesis_time)
    /\ malicious_rate \in 0..Scale
    /\ pc = "miner"
    /\ ForkIdle
    /\ GrowthIdle

\* the store after a handler, written back to the attributes
Commit(s) ==
    LET t == Collect(s)
    IN  /\ heap' = t.heap
        /\ honest_blockchain' = t.honest_blockchain
        /\ selfish_blockchain' = t.blockchain
        /\ public_chain' = t.public_chain
        /\ private_chain_length' = t.private_chain_length

\* simulate, lines 60-61: the draw is <= malicious_rate, the adversary mines
SelfishMiner ==
    /\ pc = "miner"
    /\ round < MaxRounds
    /\ \E r \in Draws : r <= malicious_rate
    /\ LET block == Block(-1, "selfish", round + 1)
       IN  /\ Commit(selfish_miner(Store, block))
           /\ delta' = Delta([ListAppend(Store, selfish_blockchain, block)
                                EXCEPT !.private_chain_length = @ + 1])
    /\ round' = round + 1
    /\ pc' = "select_chain"
    /\ miner' = "selfish"
    /\ coin' = "none"
    /\ start' = Snapshot(Store)
    /\ last_round' = [miner |-> miner, start |-> start]
    /\ UNCHANGED malicious_rate
    /\ UNCHANGED <<fvars, gvars>>

\* simulate, lines 62-63: the draw is > malicious_rate, the honest miner mines
HonestMiner ==
    /\ pc = "miner"
    /\ round < MaxRounds
    /\ \E r \in Draws : r > malicious_rate
    /\ LET block == Block(1, "honest", round + 1)
           d == Delta(ListAppend(Store, honest_blockchain, block))
       IN  \E c \in Draws :
             /\ Commit(honest_miner(Store, block, 2 * c < Scale))
             /\ delta' = d
             /\ coin' = IF d # 1 THEN "none"
                        ELSE IF 2 * c < Scale THEN "heads" ELSE "tails"
    /\ round' = round + 1
    /\ pc' = "select_chain"
    /\ miner' = "honest"
    /\ start' = Snapshot(Store)
    /\ last_round' = [miner |-> miner, start |-> start]
    /\ UNCHANGED malicious_rate
    /\ UNCHANGED <<fvars, gvars>>

\* simulate, line 65
SelectChain ==
    /\ pc = "select_chain"
    /\ Commit(select_chain(Store))
    /\ pc' = "miner"
    /\ UNCHANGED <<malicious_rate, round, miner, delta, coin, start, last_round>>
    /\ UNCHANGED <<fvars, gvars>>

\* simulate, line 73: the loop is over and the ratio is printed
Finish ==
    /\ pc = "miner"
    /\ round = MaxRounds
    /\ pc' = "done"
    /\ UNCHANGED <<heap, honest_blockchain, selfish_blockchain, public_chain,
                   private_chain_length, malicious_rate, round, miner, delta, coin, start,
                   last_round>>
    /\ UNCHANGED <<fvars, gvars>>

Next == SelfishMiner \/ HonestMiner \/ SelectChain \/ Finish

Spec == Init /\ [][Next]_vars

\* the lists the attributes refer to
Honest == heap[honest_blockchain]
Private == heap[selfish_blockchain]
Public == heap[public_chain]

\* a round has run to its end: select_chain has returned
RoundEnd == pc \in {"miner", "done"} /\ round > 0

TypeOK ==
    /\ honest_blockchain \in Ref /\ selfish_blockchain \in Ref /\ public_chain \in Ref
    /\ private_chain_length \in Int
    /\ round \in 0..MaxRounds
    /\ pc \in {"miner", "select_chain", "done"}

\* --------------------------------------------------------------- fork race
\* threshold of simulate_blockchain
threshold == 6

\* prev_hash of a Genesis block, the string "0"
ZeroHash == <<0, 0>>

\* Block(index, prev_hash, timestamp, data) of fork_attack.py; hash stands for
\* the SHA-256 digest: the pair (miner, index) is unique because no node's
\* chain ever gets shorter
FBlock(index, prev_hash, data, hash) ==
    [index |-> index, prev_hash |-> prev_hash, data |-> data, hash |-> hash]

\* HonestNode.create_genesis_block / MaliciousNode.create_genesis_block of node n
create_genesis_block(n) == FBlock(0, ZeroHash, "Genesis", <<n, 0>>)

\* honest_count and malicious_count of lines 87-88, rate in units of 1/Scale
HonestCount(n, rate) == (n * (Scale - rate)) \div Scale
MaliciousCount(n, rate) == n - HonestCount(n, rate)

\* honest_nodes and malicious_nodes of lines 95-96, as sequences of node indices
HonestNodes == [i \in 1..HonestCount(node_count, fork_malicious_rate) |-> i]
MaliciousNodes ==
    [i \in 1..MaliciousCount(node_count, fork_malicious_rate) |->
        HonestCount(node_count, fork_malicious_rate) + i]

\* data of the blocks node n mines
DataOf(n) == IF n <= HonestCount(node_count, fork_malicious_rate)
             THEN "Honest" ELSE "Malicious"

\* success_rate arguments tried: never, sometimes and always below the draw
SuccessRates == {0, 1, Scale}

\* the nodes and their list objects as a record
FStore == [lists |-> lists, chain |-> chain]

\* node.chain of node n
NodeChain(s, n) == s.lists[s.chain[n]]

\* list objects are named after the first node that holds them, the others
\* are dropped: identity of lists is kept, their addresses are not
Normalize(s) ==
    LET owner(n) == CHOOSE m \in DOMAIN s.chain :
                        /\ s.chain[m] = s.chain[n]
                        /\ \A k \in DOMAIN s.chain : s.chain[k] = s.chain[n] => m <= k
    IN  [lists |-> [r \in FRef |->
                      IF r \in DOMAIN s.chain /\ owner(r) = r
                      THEN s.lists[s.chain[r]] ELSE << >>],
         chain |-> [n \in DOMAIN s.chain |-> owner(n)]]

\* try_mine_block that mines the block and does not append it
try_mine_block_lost(s, n, data) == s

\* try_mine_block extending the first block of the list instead of the last
try_mine_block_from_first(s, n, data) ==
    LET prev_block == NodeChain(s, n)[1]
        new_block == FBlock(prev_block.index + 1, prev_block.hash, data,
                            <<n, Len(NodeChain(s, n))>>)
    IN  [s EXCEPT !.lists[s.chain[n]] = Append(@, new_block)]

\* try_mine_block of node n when the draw succeeds: the new block is appended
\* in place to the list node n holds
try_mine_block(s, n, data) ==
    LET prev_block == NodeChain(s, n)[Len(NodeChain(s, n))]
        new_block == FBlock(prev_block.index + 1, prev_block.hash, data,
                            <<n, prev_block.index + 1>>)
    IN  [s EXCEPT !.lists[s.chain[n]] = Append(@, new_block)]

\* max_len of select_chain
max_len(s, nodes) ==
    CHOOSE l \in {Len(NodeChain(s, nodes[i])) : i \in 1..Len(nodes)} :
        \A j \in 1..Len(nodes) : Len(NodeChain(s, nodes[j])) <= l

\* candidates without the length test: any node of the list
candidates_any(s, nodes) == {nodes[i] : i \in 1..Len(nodes)}

\* candidates of select_chain
candidates(s, nodes) ==
    {nodes[i] : i \in {j \in 1..Len(nodes) :
                          Len(NodeChain(s, nodes[j])) = max_len(s, nodes)}}

\* a list reference no node holds
FFreshRef(s) ==
    CHOOSE r \in FRef : r \notin {s.chain[n] : n \in DOMAIN s.chain}

\* node.chain = chosen.chain with no copy: the two nodes share one list
list_share(s, n, chosen) == [s EXCEPT !.chain[n] = s.chain[chosen]]

\* node.chain = chosen.chain.copy(): a new list with the same blocks
list_copy(s, n, chosen) ==
    LET r == FFreshRef(s)
    IN  [s EXCEPT !.lists[r] = s.lists[s.chain[chosen]], !.chain[n] = r]

\* the for loop of select_chain from position i on
RECURSIVE copy_loop(_, _, _, _)
copy_loop(s, nodes, chosen, i) ==
    IF i > Len(nodes) THEN s
    ELSE copy_loop(list_copy(s, nodes[i], chosen), nodes, chosen, i + 1)

\* select_chain(nodes) of fork_attack.py (pow.py has the same text), chosen
\* being the result of random.choice(candidates)
fork_select_chain(s, nodes, chosen) == Normalize(copy_loop(s, nodes, chosen, 1))

\* the chains the nodes of a list hold, by node
ChainsOf(s, nodes) ==
    [n \in {nodes[i] : i \in 1..Len(nodes)} |-> NodeChain(s, n)]

NoCall == [nodes |-> << >>, before |-> << >>, chosen |-> 0]

\* no round of the current trial has passed the threshold test of line 112
NoVerdict == [ended |-> FALSE]

\* simulate_blockchain(node_count, malicious_rate, success_rate, rounds, difficulty)
\* has been called with rounds = MaxTrials
ForkInit ==
    /\ node_count \in 0..MaxNodes
    /\ fork_malicious_rate \in 0..Scale
    /\ success_rate \in SuccessRates
    /\ lists = [r \in FRef |-> << >>]
    /\ chain = << >>
    /\ trial = 0
    /\ malicious_win_count = 0
    /\ fpc = "trial"
    /\ cursor = 0
    /\ chain_honest = 0
    /\ chain_malicious = 0
    /\ called = NoCall
    /\ verdict = NoVerdict

InitFork ==
    /\ SelfishInit(0)
    /\ malicious_rate = 0
    /\ pc = "off"
    /\ ForkInit
    /\ GrowthIdle

\* lines 93-96: a trial starts with new nodes, each with its own Genesis block
StartTrial ==
    /\ fpc = "trial"
    /\ trial < MaxTrials
    /\ trial' = trial + 1
    /\ chain' = [n \in 1..node_count |-> n]
    /\ lists' = [r \in FRef |->
                   IF r \in 1..node_count THEN <<create_genesis_block(r)>> ELSE << >>]
    /\ cursor' = 1
    /\ fpc' = "mine"
    /\ called' = NoCall
    /\ verdict' = NoVerdict
    /\ UNCHANGED <<node_count, fork_malicious_rate, success_rate, malicious_win_count,
                   chain_honest, chain_malicious>>
    /\ UNCHANGED <<svars, gvars>>

\* lines 100-103: node cursor tries to mine, honest nodes first
TryMineBlock ==
    /\ fpc = "mine"
    /\ cursor <= node_count
    /\ \/ /\ \E r \in Draws : r < success_rate
          /\ lists' = try_mine_block(FStore, cursor, DataOf(cursor)).lists
       \/ /\ \E r \in Draws : ~(r < success_rate)
          /\ lists' = lists
    /\ cursor' = cursor + 1
    /\ UNCHANGED <<chain, node_count, fork_malicious_rate, success_rate, trial,
                   malicious_win_count, fpc, chain_honest, chain_malicious, called>>
    /\ UNCHANGED <<svars, gvars>>
    /\ UNCHANGED verdict

\* line 106: chain_honest = select_chain(honest_nodes); max() of an empty
\* list raises ValueError
SelectHonest ==
    /\ fpc = "mine"
    /\ cursor > node_count
    /\ IF Len(HonestNodes) = 0
       THEN /\ fpc' = "error"
            /\ UNCHANGED <<lists, chain, chain_honest, called>>
       ELSE \E chosen \in candidates(FStore, HonestNodes) :
            LET t == fork_select_chain(FStore, HonestNodes, chosen)
            IN  /\ lists' = t.lists
                /\ chain' = t.chain
                /\ chain_honest' = chosen
                /\ called' = [nodes |-> HonestNodes,
                              before |-> ChainsOf(FStore, HonestNodes),
                              chosen |-> chosen]
                /\ fpc' = "select_malicious"
    /\ UNCHANGED <<node_count, fork_malicious_rate, success_rate, trial,
                   malicious_win_count, cursor, chain_malicious>>
    /\ UNCHANGED <<svars, gvars>>
    /\ UNCHANGED verdict

\* line 107: chain_malicious = select_chain(malicious_nodes)
SelectMalicious ==
    /\ fpc = "select_malicious"
    /\ IF Len(MaliciousNodes) = 0
       THEN /\ fpc' = "error"
            /\ UNCHANGED <<lists, chain, chain_malicious, called>>
       ELSE \E chosen \in candidates(FStore, MaliciousNodes) :
            LET t == fork_select_chain(FStore, MaliciousNodes, chosen)
            IN  /\ lists' = t.lists
                /\ chain' = t.chain
                /\ chain_malicious' = chosen
                /\ called' = [nodes |-> MaliciousNodes,
                              before |-> ChainsOf(FStore, MaliciousNodes),
                              chosen |-> chosen]
                /\ fpc' = "judge"
    /\ UNCHANGED <<node_count, fork_malicious_rate, success_rate, trial,
                   malicious_win_count, cursor, chain_honest>>
    /\ UNCHANGED <<svars, gvars>>
    /\ UNCHANGED verdict

\* len_h and len_m of lines 109-110
len_h == Len(NodeChain(FStore, chain_honest)) - 1
len_m == Len(NodeChain(FStore, chain_malicious)) - 1

\* the test of line 114 with every tie counted as a win
malicious_wins_every_tie(lh, lm, heads) == lm >= lh

\* the test of line 112 with >= for >
trial_over_at_threshold(lh, lm) == lh >= threshold \/ lm >= threshold

\* the test of line 112: a representative chain is past the threshold
trial_over(lh, lm) == lh > threshold \/ lm > threshold

\* the test of line 114, heads being random.random() < 0.5; the draw is made
\* only when the first disjunct is false and the lengths are equal
malicious_wins(lh, lm, heads) == lm > lh \/ (lm = lh /\ heads)

\* lines 112-116: past the threshold the trial ends, with a win for the
\* malicious chain when it is longer or wins the coin on a tie
Judge ==
    /\ fpc = "judge"
    /\ IF trial_over(len_h, len_m)
       THEN /\ \E r \in Draws :
                 LET heads == 2 * r < Scale
                     won == malicious_wins(len_h, len_m, heads)
                 IN  /\ malicious_win_count' =
                            IF won THEN malicious_win_count + 1 ELSE malicious_win_count
                     /\ verdict' = [ended |-> TRUE, len_h |-> len_h, len_m |-> len_m,
                                    coin |-> IF len_m # len_h THEN "none"
                                             ELSE IF heads THEN "heads" ELSE "tails",
                                    won |-> won,
                                    wins_before |-> malicious_win_count]
            /\ fpc' = "trial"
            /\ cursor' = 0
       ELSE /\ fpc' = "mine"
            /\ cursor' = 1
            /\ UNCHANGED <<malicious_win_count, verdict>>
    /\ called' = NoCall
    /\ UNCHANGED <<lists, chain, node_count, fork_malicious_rate, success_rate, trial,
                   chain_honest, chain_malicious>>
    /\ UNCHANGED <<svars, gvars>>

\* line 119: all trials are over and the rate is printed
FinishFork ==
    /\ fpc = "trial"
    /\ trial = MaxTrials
    /\ fpc' = "done"
    /\ UNCHANGED <<lists, chain, node_count, fork_malicious_rate, success_rate, trial,
                   malicious_win_count, cursor, chain_honest, chain_malicious, called>>
    /\ UNCHANGED <<svars, gvars>>
    /\ UNCHANGED verdict

NextFork ==
    StartTrial \/ TryMineBlock \/ SelectHonest \/ SelectMalicious \/ Judge \/ FinishFork

SpecFork == InitFork /\ [][NextFork]_vars

\* a draw of line 40 is below success_rate and the block is appended
MineSucceeds == TryMineBlock /\ lists' # lists

\* the fork race keeps running, and draws below success_rate keep coming as
\* long as nodes keep trying
SpecForkFair ==
    InitFork /\ [][NextFork]_vars /\ WF_vars(NextFork) /\ SF_vars(MineSucceeds)

\* ------------------------------------------------------------ growth model
\* nodes of line 65 of pow.py, as the sequence of node indices
Nodes == [i \in 1..node_count |-> i]

\* simulate_blockchain(node_count, difficulty, rounds, success_rate) of pow.py
\* has been called with rounds = MaxGrowthRounds: every node holds its own
\* list with its own Genesis block
InitGrowth ==
    /\ SelfishInit(0)
    /\ malicious_rate = 0
    /\ pc = "off"
    /\ node_count \in 0..MaxGrowthNodes
    /\ success_rate \in SuccessRates
    /\ fork_malicious_rate = 0
    /\ chain = [n \in 1..node_count |-> n]
    /\ lists = [r \in FRef |->
                  IF r \in 1..node_count THEN <<create_genesis_block(r)>> ELSE << >>]
    /\ trial = 0
    /\ malicious_win_count = 0
    /\ fpc = "growth_mine"
    /\ cursor = 1
    /\ chain_honest = 0
    /\ chain_malicious = 0
    /\ called = NoCall
    /\ verdict = NoVerdict
    /\ growth_round = 1
    /\ current_length = 0

\* lines 70-71 of pow.py: node cursor tries to mine
GrowthTryMineBlock ==
    /\ fpc = "growth_mine"
    /\ growth_round <= MaxGrowthRounds
    /\ cursor <= node_count
    /\ \/ /\ \E r \in Draws : r < success_rate
          /\ lists' = try_mine_block(FStore, cursor, "Honest").lists
       \/ /\ \E r \in Draws : ~(r < success_rate)
          /\ lists' = lists
    /\ cursor' = cursor + 1
    /\ called' = NoCall
    /\ UNCHANGED <<chain, node_count, fork_malicious_rate, success_rate, trial,
                   malicious_win_count, fpc, chain_honest, chain_malicious>>
    /\ UNCHANGED <<svars, gvars>>
    /\ UNCHANGED verdict

\* lines 73-77 of pow.py: select_chain(nodes) and the length of its result
GrowthSelectChain ==
    /\ fpc = "growth_mine"
    /\ growth_round <= MaxGrowthRounds
    /\ cursor > node_count
    /\ IF Len(Nodes) = 0
       THEN /\ fpc' = "error"
            /\ UNCHANGED <<lists, chain, called, cursor, gvars>>
       ELSE \E chosen \in candidates(FStore, Nodes) :
            LET t == fork_select_chain(FStore, Nodes, chosen)
            IN  /\ lists' = t.lists
                /\ chain' = t.chain
                /\ called' = [nodes |-> Nodes,
                              before |-> ChainsOf(FStore, Nodes),
                              chosen |-> chosen]
                /\ current_length' = Len(t.lists[t.chain[chosen]])
                /\ growth_round' = growth_round + 1
                /\ cursor' = 1
                /\ fpc' = "growth_mine"
    /\ UNCHANGED <<node_count, fork_malicious_rate, success_rate, trial,
                   malicious_win_count, chain_honest, chain_malicious>>
    /\ UNCHANGED svars
    /\ UNCHANGED verdict

\* lines 80-81 of pow.py: the loop is over and the growth rate is printed
GrowthFinish ==
    /\ fpc = "growth_mine"
    /\ growth_round > MaxGrowthRounds
    /\ fpc' = "done"
    /\ UNCHANGED <<lists, chain, node_count, fork_malicious_rate, success_rate, trial,
                   malicious_win_count, cursor, chain_honest, chain_malicious, called>>
    /\ UNCHANGED <<svars, gvars>>
    /\ UNCHANGED verdict

NextGrowth == GrowthTryMineBlock \/ GrowthSelectChain \/ GrowthFinish

SpecGrowth == InitGrowth /\ [][NextGrowth]_vars

\* ------------------------------------------ fork race or growth model
\* either simulate_blockchain has been called
InitChains == InitFork \/ InitGrowth

NextChains ==
    \/ StartTrial \/ TryMineBlock \/ SelectHonest \/ SelectMalicious \/ Judge
    \/ FinishFork
    \/ GrowthTryMineBlock \/ GrowthSelectChain \/ GrowthFinish

SpecChains == InitChains /\ [][NextChains]_vars

\* ------------------------------------------------- claims, selfish model
\* the lead a snapshot shows: private length minus public length
Lead(snap) == Len(snap.private) - Len(snap.public)

\* a miner has returned and select_chain has not run yet
AfterMiner == pc = "select_chain"

\* C1: the counter private_chain_length is >= 0 after every transition.
C1_CounterNonNegative == private_chain_length >= 0

\* C2: at the end of every round the counter equals the length lead of the
\* private chain over the public chain.
C2_CounterIsLead ==
    RoundEnd => private_chain_length = Len(Private) - Len(Public)

\* C3: after select_chain at the end of every round the honest chain and the
\* public chain are the same sequence of blocks.
C3_Converged == RoundEnd => Honest = Public

C3_Witness ==
    /\ RoundEnd /\ miner = "honest" /\ Lead(start) > 2
    /\ Honest = Public /\ Len(Honest) = Len(start.honest) + 1

\* C4: when the adversary mines in two consecutive rounds starting from parity
\* (equal lengths, counter 0), after the second selfish_miner call the public
\* chain equals the private chain and the counter is 0.
C4_PublishAfterTwo ==
    ( /\ AfterMiner /\ miner = "selfish" /\ last_round.miner = "selfish"
      /\ Lead(last_round.start) = 0
      /\ last_round.start.private_chain_length = 0 )
    => (Public = Private /\ private_chain_length = 0)

\* C5: when the honest miner mines while the private chain leads by more than
\* 2, the counter decreases by exactly 2 and the public chain, and the honest
\* chain after select_chain, grow by exactly the first undisclosed block.
C5_LeadMoreThanTwo ==
    (miner = "honest" /\ Lead(start) > 2 /\ (AfterMiner \/ RoundEnd))
    => /\ private_chain_length = start.private_chain_length - 2
       /\ Len(Public) = Len(start.public) + 1
       /\ Public[Len(Public)] = start.private[Len(start.public) + 1]
       /\ \A i \in 1..Len(Public) : Public[i] = start.private[i]
       /\ RoundEnd => (Honest = Public /\ Len(Honest) = Len(start.honest) + 1)

C5_Witness ==
    /\ RoundEnd /\ miner = "honest" /\ Lead(start) > 2
    /\ private_chain_length = start.private_chain_length - 2
    /\ Len(Honest) = Len(start.honest) + 1
    /\ Honest[Len(Honest)] = start.private[Len(start.public) + 1]

\* C6: when the honest miner mines while the private chain leads by exactly 1,
\* the round ends with the three chains of equal length (previous public
\* length + 1) and the counter at 0; the canonical tip is the honest block on
\* one coin outcome and the adversary's block on the other.
C6_LeadOne ==
    (RoundEnd /\ miner = "honest" /\ Lead(start) = 1)
    => /\ Len(Honest) = Len(start.public) + 1
       /\ Len(Public) = Len(start.public) + 1
       /\ Len(Private) = Len(start.public) + 1
       /\ private_chain_length = 0
       /\ coin \in {"heads", "tails"}
       /\ coin = "heads" => Honest[Len(Honest)] = Block(1, "honest", round)
       /\ coin = "tails" => /\ Honest[Len(Honest)] = start.private[Len(start.private)]
                            /\ Honest[Len(Honest)].node_id = -1

C6_Witness ==
    /\ RoundEnd /\ miner = "honest" /\ Lead(start) = 1 /\ coin = "tails"
    /\ Honest[Len(Honest)].node_id = -1
    /\ private_chain_length = 0

\* the other coin outcome of C6 is reachable too
C6_WitnessHeads ==
    /\ RoundEnd /\ miner = "honest" /\ Lead(start) = 1 /\ coin = "heads"
    /\ Honest[Len(Honest)].node_id = 1

\* C7: when the honest miner mines while the private chain leads by exactly 2,
\* the full private chain is published, the counter becomes 0 and after
\* select_chain the honest chain equals the private chain, without the honest
\* block just mined.
C7_LeadTwo ==
    (miner = "honest" /\ Lead(start) = 2 /\ (AfterMiner \/ RoundEnd))
    => /\ Public = start.private
       /\ Private = start.private
       /\ private_chain_length = 0
       /\ RoundEnd => /\ Honest = Private
                      /\ \A i \in 1..Len(Honest) : Honest[i] # Block(1, "honest", round)

C7_Witness ==
    /\ RoundEnd /\ miner = "honest" /\ Lead(start) = 2
    /\ Honest = Private /\ Len(Honest) = Len(start.honest) + 2

\* C8: at every round boundary the honest chain, the private chain and the
\* public chain are three distinct list objects.
C8_NoAliasing ==
    pc \in {"miner", "done"}
    => /\ honest_blockchain # selfish_blockchain
       /\ honest_blockchain # public_chain
       /\ selfish_blockchain # public_chain

\* blocks of the chain after the Genesis block that carry node_id id
MinedCount(blocks, id) == Cardinality({i \in 2..Len(blocks) : blocks[i].node_id = id})

\* C9: the counts behind the profit ratio exclude the Genesis block at index 0
\* of the canonical chain: it is counted for neither party.
C9_GenesisExcluded ==
    RoundEnd => /\ block_count(Honest, -1) = MinedCount(Honest, -1)
                /\ block_count(Honest, 1) = MinedCount(Honest, 1)

\* ------------------------------------- claims, fork race and growth model
\* the nodes of the list the last select_chain call was given
CalledNodes == {called.nodes[i] : i \in 1..Len(called.nodes)}

\* select_chain has just returned from a call on a non-empty list
AfterSelect == called.nodes # << >>

\* C10: after select_chain(nodes) on a non-empty list every node of the list
\* holds a chain equal to the chain one node of maximal length held before the
\* call: the chains are identical, as long as the previous maximum, no chain
\* got shorter, and every node holds a list of its own.
C10_SelectChain ==
    AfterSelect =>
        /\ \E c \in CalledNodes :
              /\ \A n \in CalledNodes : Len(called.before[n]) <= Len(called.before[c])
              /\ \A n \in CalledNodes : NodeChain(FStore, n) = called.before[c]
        /\ \A n \in CalledNodes : Len(NodeChain(FStore, n)) >= Len(called.before[n])
        /\ \A n, m \in CalledNodes : NodeChain(FStore, n) = NodeChain(FStore, m)
        /\ \A n, m \in CalledNodes : n # m => chain[n] # chain[m]

\* a call where one node was behind and two different chains tied for the maximum
C10_Witness ==
    /\ AfterSelect
    /\ \E n, m \in CalledNodes :
          /\ n # m /\ n # called.chosen /\ m # called.chosen
          /\ Len(called.before[n]) < Len(called.before[called.chosen])
          /\ Len(called.before[m]) = Len(called.before[called.chosen])
          /\ called.before[m] # called.before[called.chosen]
          /\ NodeChain(FStore, n) = called.before[called.chosen]
          /\ NodeChain(FStore, m) = called.before[called.chosen]
          /\ chain[n] # chain[m]
    /\ Len(called.before[called.chosen]) >= 3

\* a trial has just ended: the test of line 112 held and the loop was left
TrialEnded == fpc \in {"trial", "done"} /\ verdict.ended

\* C11: in the round where a trial ends a win is counted if and only if the
\* malicious chain is strictly longer, or the lengths are equal and the coin
\* draw is below 0.5; never when it is strictly shorter; at most one per trial.
C11_WinCounted ==
    /\ TrialEnded =>
          /\ verdict.won <=> ( \/ verdict.len_m > verdict.len_h
                               \/ (verdict.len_m = verdict.len_h /\ verdict.coin = "heads") )
          /\ verdict.len_m < verdict.len_h => ~verdict.won
          /\ malicious_win_count = verdict.wins_before + (IF verdict.won THEN 1 ELSE 0)
    /\ malicious_win_count <= trial
    /\ (~verdict.ended /\ trial > 0) => malicious_win_count <= trial - 1

\* a trial that ended on a tie the malicious chain won by the coin
C11_Witness ==
    /\ TrialEnded
    /\ verdict.len_m = verdict.len_h /\ verdict.coin = "heads" /\ verdict.won
    /\ malicious_win_count = verdict.wins_before + 1

\* the configuration has a positive node count and a positive success rate
ValidConfig == node_count > 0 /\ success_rate > 0

\* C12: with malicious_rate = 0 every trial completes and the win count stays 0.
C12_NoMaliciousNodes ==
    (ValidConfig /\ fork_malicious_rate = 0 /\ fpc # "off")
    => (fpc # "error" /\ malicious_win_count = 0)

\* C13: with malicious_rate = 1 every trial completes and is counted as a win:
\* the win count equals the number of trials.
C13_AllMalicious ==
    (ValidConfig /\ fork_malicious_rate = Scale /\ fpc # "off")
    => /\ fpc # "error"
       /\ fpc = "done" => malicious_win_count = MaxTrials

\* every block after the first names the hash of the block before it and
\* carries its position as index
Linked(blocks) ==
    \A i \in 2..Len(blocks) :
        /\ blocks[i].prev_hash = blocks[i - 1].hash
        /\ blocks[i].index = i - 1

\* C14: in every chain held by any node, after every try_mine_block and every
\* select_chain, chain[i].prev_hash == chain[i-1].hash and chain[i].index == i
\* for every i > 0.
C14_Linkage == \A n \in DOMAIN chain : Linked(NodeChain(FStore, n))

\* after a select_chain a node holds a linked chain with blocks of two miners
C14_Witness ==
    /\ AfterSelect
    /\ \E n \in CalledNodes :
          /\ Len(NodeChain(FStore, n)) >= 3
          /\ NodeChain(FStore, n)[2].hash[1] # NodeChain(FStore, n)[3].hash[1]
          /\ NodeChain(FStore, n)[3].prev_hash = NodeChain(FStore, n)[2].hash
          /\ NodeChain(FStore, n)[3].index = 2

\* C15: with malicious_rate = 0 the adversary is never the miner of a round,
\* no adversary-tagged block enters the canonical chain and the profit ratio
\* block_count(-1) / (block_count(1) + block_count(-1)) is 0 after every round.
C15_RateZero ==
    (malicious_rate = 0 /\ pc # "off")
    => /\ miner # "selfish"
       /\ RoundEnd => block_count(Honest, -1) = 0

\* C16: simulate_blockchain of the fork race called with an invalid
\* configuration (success_rate <= 0 or node_count <= 0) ends in an error before
\* any node is created and before any trial starts.
C16_FailFast ==
    (fpc # "off" /\ ~ValidConfig)
    => /\ trial = 0
       /\ chain = << >>
       /\ fpc \in {"trial", "error"}

\* the publish rule of line 92 held in the selfish_miner call of this round
PublishFired == delta = 0 /\ start.private_chain_length = 1

\* C17: in a round where the adversary mines and the publish rule of
\* selfish_miner does not fire, selfish_miner leaves the public chain unchanged
\* and the honest chain ends the round with the blocks it had at the end of the
\* previous round; the new block is in the private chain only.
C17_Withheld ==
    ( /\ miner = "selfish" /\ round > 1 /\ ~PublishFired
      /\ (AfterMiner \/ RoundEnd) )
    => /\ Public = start.public
       /\ Private = Append(start.private, Block(-1, "selfish", round))
       /\ RoundEnd => Honest = start.honest

\* C19: wherever honest_miner or selfish_miner computes delta, and at every
\* round boundary, the private chain is at least as long as the public chain:
\* delta is never negative and the last branch of honest_miner is taken with
\* delta > 2 only.
C19_DeltaNonNegative ==
    /\ AfterMiner => delta >= 0
    /\ pc \in {"miner", "done"} => Len(Private) >= Len(Public)
    /\ (AfterMiner /\ miner = "honest" /\ delta \notin {0, 1, 2}) => delta > 2

\* the last branch of honest_miner has been taken
C19_Witness ==
    /\ AfterMiner /\ miner = "honest" /\ delta > 2
    /\ private_chain_length = start.private_chain_length - 2

\* there is an honest node and a malicious node, and mining can succeed
RaceConfig ==
    /\ HonestCount(node_count, fork_malicious_rate) >= 1
    /\ MaliciousCount(node_count, fork_malicious_rate) >= 1
    /\ success_rate > 0

\* C18: with at least one honest and one malicious node and success_rate > 0,
\* when mining attempts keep succeeding every trial reaches a round with
\* len_h > 6 or len_m > 6 and leaves the while loop.
C18_TrialTerminates ==
    (fpc = "mine" /\ RaceConfig) ~> (TrialEnded /\ trial_over(verdict.len_h, verdict.len_m))

\* the last trial of a race has ended by the threshold test
C18_Witness ==
    /\ RaceConfig /\ TrialEnded /\ trial = MaxTrials
    /\ (verdict.len_h > threshold \/ verdict.len_m > threshold)

\* the larger of two lengths
Longer(a, b) == IF a >= b THEN a ELSE b

\* while a round's mining loop runs, the nodes of a population that have not
\* yet tried hold chains of one length (the representative chain of the round
\* before, or Genesis), and the others hold at most one block more
RoundGrowth(nodes) ==
    \A i, j \in DOMAIN nodes :
        LET li == Len(NodeChain(FStore, nodes[i]))
            lj == Len(NodeChain(FStore, nodes[j]))
        IN  /\ (nodes[i] >= cursor /\ nodes[j] >= cursor) => li = lj
            /\ nodes[j] >= cursor => (lj <= li /\ li <= lj + 1)

\* C20: a representative chain grows by at most one block per round, so the
\* trial ends in the first round in which a length (without Genesis) exceeds 6:
\* the longer of len_h and len_m is then exactly 7, and a tie is 7 against 7.
C20_EndsAtSeven ==
    /\ fpc = "mine" => (RoundGrowth(HonestNodes) /\ RoundGrowth(MaliciousNodes))
    /\ \A n \in DOMAIN chain :
          fpc \in {"mine", "select_malicious", "judge", "trial"}
          => Len(NodeChain(FStore, n)) - 1 <= threshold + 1
    /\ fpc = "judge" => (len_h <= threshold + 1 /\ len_m <= threshold + 1)
    /\ TrialEnded =>
          /\ Longer(verdict.len_h, verdict.len_m) = threshold + 1
          /\ verdict.len_h = verdict.len_m => verdict.len_h = threshold + 1

\* a trial that ended on a tie
C20_Witness ==
    /\ TrialEnded
    /\ verdict.len_h = verdict.len_m /\ verdict.len_h = threshold + 1
====
